---- MODULE Spec2Model ----
(***************************************************************************)
(* A model of the llm_app webhook orchestrator.  The repository holds      *)
(* three variants of the same server:                                      *)
(*   "A"  src/server.js lines 1-302    (Gemini, simple-git)                *)
(*   "B"  src/server.js lines 303-640  (OpenAI, Octokit + git CLI)         *)
(*   "C"  src/unnamed/part_000         (OpenAI, Octokit contents API)      *)
(* One behaviour of the model is one server process of one variant,        *)
(* serving up to two requests whose background runs interleave at every    *)
(* await of the code.                                                      *)
(***************************************************************************)
EXTENDS Integers, Sequences, FiniteSets, TLC

\* ------------------------------------------------------------------ values

Variants == {"A", "B", "C"}
Runs == {1, 2}

\* A value JavaScript reads from an absent property or environment variable.
UNDEFINED == "undefined"
GoodSecret == "s3cr3t"
SecretValues == {GoodSecret, "wrong", UNDEFINED}
ConfiguredSecrets == {GoodSecret, UNDEFINED}

\* Task identifiers are sequences of characters.
MaxTaskLen == 1
TaskChars == {"a", "A"}
Tasks == UNION {[1..n -> TaskChars] : n \in 1..MaxTaskLen}

\* The request's round: a JSON number or a JSON string.
Num(n) == <<"num", n>>
Str(n) == <<"str", n>>
RoundValues == {Num(1), Num(2), Num(3), Str(1)}

FileNames == {"index.html", "script.js", "README.md", "LICENSE"}

\* File contents.  Gen(r) is the text the model returned to run r for a file.
Gen(r) == <<"gen", r>>
MIT == <<"mit", 0>>
Placeholder == <<"placeholder", 0>>
Absent == <<"absent", 0>>
Undef == <<"undefined", 0>>
EmptyTree == [f \in FileNames |-> Absent]

NoSha == 0

\* ------------------------------------------------------- repository names

LowerCase(c) == IF c = "A" THEN "a" ELSE c
IsLowerAlnum(c) == c \in {"a", "b", "0", "1", "2"}
\* part_000:177  task.toLowerCase().replace(/[^a-z0-9]/g, '-')
NormalizeTask(task) ==
    [i \in DOMAIN task |->
        IF IsLowerAlnum(LowerCase(task[i])) THEN LowerCase(task[i]) ELSE "-"]

\* Template-literal conversion of the round to text: 1 and "1" both give "1".
RoundText(rd) == CASE rd[2] = 1 -> "1" [] rd[2] = 2 -> "2" [] OTHER -> "3"

RepoNameA(task, rd) == <<"llm-project-">> \o task
RepoNameB(task, rd) == task \o <<"-", RoundText(rd)>>
RepoNameC(task, rd) == <<"llm-deploy-">> \o NormalizeTask(task)

RepoName(v, task, rd) ==
    CASE v = "A" -> RepoNameA(task, rd)
      [] v = "B" -> RepoNameB(task, rd)
      [] OTHER   -> RepoNameC(task, rd)

AllRepoNames == {RepoName(v, t, rd) : v \in Variants, t \in Tasks, rd \in RoundValues}

\* Staging directories: variant A appends random bytes to the task, variant B
\* uses the repository name.
RandomSuffixes == {"00", "01"}
\* crypto.randomBytes(4).toString('hex'): the values are interchangeable, so
\* the first request draws the first and a later one draws any.
RandomBytes(r) == IF r = 1 THEN {"00"} ELSE RandomSuffixes
TempDirA(task, rnd) == <<"repo-">> \o task \o <<"-", rnd>>
TempDirB(name) == <<"llm_task_temp/">> \o name
NoTempDir == <<>>
AllDirNames == {TempDirA(t, x) : t \in Tasks, x \in RandomSuffixes}
                 \cup {TempDirB(n) : n \in AllRepoNames}

\* ------------------------------------------------------------------- state

VARIABLES
    variant,        \* which of the three servers this process is
    STUDENT_SECRET, \* process.env.STUDENT_SECRET
    req,            \* the request body of each run
    pc,             \* where each run's handler / background task stands
    resp,           \* the synchronous HTTP responses sent for each request
    repoName,       \* local: REPO_NAME / repoName
    tempDir,        \* local: tempDir
    files,          \* local: generatedFiles / files
    commitSha,      \* local: commitSha / commitSHA / commit_sha
    loc,            \* locals of the loops: file index, currentSha, i, delay
    payload,        \* the notification payload the run POSTs
    err,            \* the stage whose error ended the run ("" if none)
    calls,          \* history of the run's outbound calls
    repos,          \* the hosting service: repositories
    commits,        \* the hosting service and local clones: commit objects
    dirs,           \* the local file system: staging directories
    load            \* the environment of this behaviour: how many requests
                    \* arrive and which evaluation URLs they name

vars == <<variant, STUDENT_SECRET, req, pc, resp, repoName, tempDir, files,
          commitSha, loc, payload, err, calls, repos, commits, dirs, load>>

\* What no request handler writes.
env == <<variant, STUDENT_SECRET, load>>

\* Evaluation URLs, each an endpoint with the answers it may give: "up" always
\* answers 200, "down" never answers, "any" answers anything.
EvalUrls == {"up", "down", "any"}
\* What the evaluation collaborator may answer: an HTTP status, or 0 for a
\* transport-level error or timeout.
EvalStatuses == {200, 201, 204, 400, 500, 0}
Answers(url) ==
    CASE url = "up"   -> {200}
      [] url = "down" -> {0}
      [] OTHER        -> EvalStatuses

\* The nonce is the caller's unique token: the n-th request carries the n-th.
NonceOf(r) == IF r = 1 THEN "nonce-1" ELSE "nonce-2"
\* The e-mail address of the caller: the n-th request names the n-th.
EmailOf(r) == IF r = 1 THEN "one@example.com" ELSE "two@example.com"
NoReq == [email |-> "none", secret |-> UNDEFINED, task |-> <<>>, round |-> Num(0), nonce |-> "none",
          evaluation_url |-> "none"]
Requests(r, urls) ==
    [email : {EmailOf(r)}, secret : SecretValues, task : Tasks, round : RoundValues,
     nonce : {NonceOf(r)}, evaluation_url : urls]

\* The environments explored: two requests (concurrent or one after the
\* other) whose evaluator is up; or one request to an evaluator that answers
\* anything; the latter also without a configured secret.
Loads == {[requests |-> 2, urls |-> {"up"}],
          [requests |-> 1, urls |-> {"any"}]}

NoPayload == [sent |-> FALSE, email |-> "none", task |-> <<>>, round |-> Num(0), nonce |-> "none",
              repo |-> <<>>, commit_sha |-> NoSha]
NoLoc == [k |-> 0, currentSha |-> Absent, i |-> 0, delay |-> 0]
\* The history of a run, kept for the properties below: the number of calls
\* to the model (llm), of repository creations (create), of page-enable calls
\* (pages) and of POSTs to the evaluator (posts); the waits of the retry loop
\* (waits) and their total in ms (waited); the answers that were no 2xx
\* (failed); the attempt that got the first 2xx answer (okAt); whether the
\* repository was read (fetched); the SHA the last repository write returned
\* (lastWrite); the <<repository, path>> pairs written (wrote); the required
\* files the model's answer lacked (lacked); and whether, when the request
\* arrived, a round-1 run for the same task had completed (follows).
NoCalls == [llm |-> 0, create |-> 0, pages |-> 0, posts |-> 0, waits |-> 0,
            waited |-> 0, failed |-> 0, okAt |-> 0, fetched |-> FALSE,
            lastWrite |-> NoSha, wrote |-> {}, lacked |-> {}, follows |-> FALSE]
NoRepo == [exists |-> FALSE, head |-> NoSha, pages |-> FALSE]
EmptyRepo == [exists |-> TRUE, head |-> NoSha, pages |-> FALSE]
NoDir == [ex |-> FALSE, files |-> EmptyTree, inited |-> FALSE, remote |-> FALSE,
          index |-> EmptyTree, head |-> NoSha]

\* The repositories that exist (empty) on the hosting service before the
\* first request: none, or those a variant pushes to without creating them.
PreExisting(v) ==
    CASE v = "A" -> {{}, {RepoNameA(t, Num(1)) : t \in Tasks}}
      [] v = "B" -> {{}, {RepoNameB(t, rd) : t \in Tasks, rd \in RoundValues \ {Num(1)}}}
      [] OTHER   -> {{}}

\* The repositories an earlier life of the service has published: those of
\* every task, under the names a round-2 run of the variant resolves.
PublishedNames(v) == {RepoName(v, t, Num(2)) : t \in Tasks}
\* What was published there, as one commit: the files a round 1 of the
\* variant writes, generated by an earlier run (0).
PublishedTree(v) ==
    [f \in FileNames |->
        IF v = "A" THEN (IF f = "LICENSE" THEN MIT ELSE Gen(0))
        ELSE IF f \in {"index.html", "README.md", "LICENSE"} THEN Gen(0) ELSE Absent]
PublishedRepo == [exists |-> TRUE, head |-> 1, pages |-> TRUE]
\* The hosting account before the first request.
InitialRepos(v) ==
    {[n \in AllRepoNames |-> IF n \in pre THEN EmptyRepo ELSE NoRepo] :
        pre \in PreExisting(v)}
    \cup {[n \in AllRepoNames |-> IF n \in PublishedNames(v) THEN PublishedRepo
                                  ELSE NoRepo]}

Init ==
    /\ variant \in Variants
    /\ load \in Loads
    /\ STUDENT_SECRET \in ConfiguredSecrets
    /\ STUDENT_SECRET = UNDEFINED => load.requests = 1
    /\ req = [r \in Runs |-> NoReq]
    /\ pc = [r \in Runs |-> "idle"]
    /\ resp = [r \in Runs |-> <<>>]
    /\ repoName = [r \in Runs |-> <<>>]
    /\ tempDir = [r \in Runs |-> NoTempDir]
    /\ files = [r \in Runs |-> EmptyTree]
    /\ commitSha = [r \in Runs |-> NoSha]
    /\ loc = [r \in Runs |-> NoLoc]
    /\ payload = [r \in Runs |-> NoPayload]
    /\ err = [r \in Runs |-> ""]
    /\ calls = [r \in Runs |-> NoCalls]
    /\ repos \in InitialRepos(variant)
    /\ commits = IF \E n \in AllRepoNames : repos[n].head # NoSha
                 THEN <<[tree |-> PublishedTree(variant), parent |-> NoSha]>>
                 ELSE <<>>
    /\ dirs = [d \in AllDirNames |-> NoDir]

\* ------------------------------------------------------ hosting collaborator

TreeOf(sha) == IF sha = NoSha THEN EmptyTree ELSE commits[sha].tree
HeadTree(n) == TreeOf(repos[n].head)
\* The version reference of a file: git's blob SHA, a function of the content.
BlobSha(content) == content

\* A hosting service that accepts every push, as for a forced one.
IsAncestorAlways(a, b) == TRUE
RECURSIVE IsAncestor(_, _)
IsAncestor(a, b) ==
    IF a = b THEN TRUE
    ELSE IF b = NoSha THEN FALSE
    ELSE IsAncestor(a, commits[b].parent)

NewSha == Len(commits) + 1

\* A hosting service on which every repository name resolves.
RemoteExistsAlways(n) == TRUE
\* The hosting service resolves the repository a clone, a push or a contents
\* call names.
RemoteExists(n) == repos[n].exists

\* ------------------------------------------------------------ Request Gate

\* A gate that lets every request through.
SecretMatchesAny(secret) == TRUE
\* secret !== STUDENT_SECRET is false exactly when this holds.
SecretMatches(secret) == secret = STUDENT_SECRET

AuthFailureStatus(v) == IF v = "A" THEN 403 ELSE 401

\* A handler that answers nothing before it starts the work.
AckResponseDeferred(r) == resp[r]
\* res.status(200).json(...)
AckResponse(r) == Append(resp[r], 200)

\* The first await after the acknowledgment.
FirstStep(v, rd) ==
    CASE v = "A" /\ rd = Num(1) -> "A_generate"
      [] v = "A" /\ rd = Num(2) -> "A_clone"
      [] v = "A"                -> "A_post"
      [] v = "B"                -> "B_generate"
      [] OTHER                  -> "C_generate"

\* A handler that records the error and lets the run go on where it was.
FailAndGoOn(r, stage) ==
    /\ err' = [err EXCEPT ![r] = stage]
    /\ UNCHANGED pc
Fail(r, stage) ==
    /\ pc' = [pc EXCEPT ![r] = "done"]
    /\ err' = [err EXCEPT ![r] = stage]

\* A payload built from variables every request overwrites: the fields of
\* the request that arrived last.
BuildPayloadFromShared(r, sha) ==
    LET last == CHOOSE q \in Runs :
                    req[q] # NoReq /\ \A p \in Runs : p > q => req[p] = NoReq
    IN  [sent |-> FALSE, email |-> req[last].email, task |-> req[last].task,
         round |-> req[last].round, nonce |-> req[last].nonce,
         repo |-> repoName[last], commit_sha |-> sha]
\* The notification payload a run builds from its locals.
BuildPayload(r, sha) ==
    [sent |-> FALSE, email |-> req[r].email, task |-> req[r].task, round |-> req[r].round,
     nonce |-> req[r].nonce, repo |-> repoName[r], commit_sha |-> sha]

\* The locals of a freshly entered retry loop: i = 0, delay = 1000.
InitialDelay == 1000
EnterNotifier(r) == [loc[r] EXCEPT !.i = 0, !.delay = InitialDelay]

Gate(r) ==
    /\ pc[r] = "idle"
    /\ r <= load.requests
    /\ \A q \in Runs : q < r => pc[q] # "idle"
    /\ \E body \in Requests(r, load.urls), rnd \in RandomBytes(r) :
        /\ req' = [req EXCEPT ![r] = body]
        /\ IF ~SecretMatches(body.secret)
           THEN /\ resp' = [resp EXCEPT ![r] = Append(resp[r], AuthFailureStatus(variant))]
                /\ pc' = [pc EXCEPT ![r] = "done"]
                /\ UNCHANGED <<repoName, tempDir, payload, loc>>
           ELSE /\ resp' = [resp EXCEPT ![r] = AckResponse(r)]
                /\ repoName' = [repoName EXCEPT
                                  ![r] = RepoName(variant, body.task, body.round)]
                /\ pc' = [pc EXCEPT ![r] = FirstStep(variant, body.round)]
                /\ tempDir' = [tempDir EXCEPT ![r] =
                        CASE variant = "A" /\ body.round = Num(2)
                                 -> TempDirA(body.task, rnd)
                          [] variant = "B"
                                 -> TempDirB(RepoName(variant, body.task, body.round))
                          [] OTHER -> NoTempDir]
                /\ IF FirstStep(variant, body.round) = "A_post"
                   THEN /\ payload' = [payload EXCEPT ![r] =
                               [sent |-> FALSE, email |-> body.email,
                                task |-> body.task, round |-> body.round,
                                nonce |-> body.nonce,
                                repo |-> RepoName(variant, body.task, body.round),
                                commit_sha |-> NoSha]]
                        /\ loc' = [loc EXCEPT ![r] = EnterNotifier(r)]
                   ELSE UNCHANGED <<payload, loc>>
        /\ calls' = [calls EXCEPT ![r].follows =
                \E q \in Runs : /\ pc[q] = "done" /\ err[q] = ""
                                /\ resp[q] = <<200>>
                                /\ req[q].round = Num(1)
                                /\ req[q].task = body.task]
    /\ UNCHANGED <<env, files, commitSha, err, repos, commits, dirs>>

\* ---------------------------------------------------- shared step helpers

Is2xx(status) == status >= 200 /\ status < 300
\* axios resolves the promise on a 2xx status and rejects on anything else.
AxiosResolves(status) == Is2xx(status)

\* The keys the JSON-mode variants ask the model for.
JsonKeys == {"index.html", "README.md", "LICENSE"}
\* The fenced blocks variant A extracts.
BlockKeys == {"index.html", "script.js", "README.md"}

\* The model's answers: the keys (or blocks) present in it, of which at most
\* MaxMissing of those asked for are absent.
MaxMissing == 1
Responses(keys) == {p \in SUBSET keys : Cardinality(keys \ p) <= MaxMissing}

\* History: one more outbound call of a kind.
Called(r, kind) ==
    CASE kind = "llm"    -> [calls EXCEPT ![r].llm = @ + 1]
      [] kind = "create" -> [calls EXCEPT ![r].create = @ + 1]
      [] kind = "pages"  -> [calls EXCEPT ![r].pages = @ + 1]
      [] OTHER           -> calls

\* The files the spec requires of every Generated File Set.
RequiredFiles == {"index.html", "README.md", "LICENSE"}
\* History: a call to the model answered with the keys `present` of `asked`.
Answered(r, asked, present) ==
    [calls EXCEPT ![r].llm = @ + 1,
                  ![r].lacked = (asked \ present) \cap RequiredFiles]

\* History: one more POST to the evaluation URL, answered with status.
RecordPost(r, status) ==
    [calls EXCEPT ![r].posts = @ + 1,
                  ![r].failed = IF Is2xx(status) THEN @ ELSE @ + 1,
                  ![r].okAt = IF @ = 0 /\ Is2xx(status) THEN calls[r].posts + 1 ELSE @]
RecordWait(r, ms) == [calls EXCEPT ![r].waited = @ + ms, ![r].waits = @ + 1]

\* The run leaves the Publisher with sha and starts the Notifier.
StartNotifier(r, sha, label) ==
    /\ payload' = [payload EXCEPT ![r] = BuildPayload(r, sha)]
    /\ loc' = [loc EXCEPT ![r] = EnterNotifier(r)]
    /\ pc' = [pc EXCEPT ![r] = label]

\* The paths whose content a push of commit sha changes in repository n.
Changed(n, sha) == {<<n, f>> : f \in {g \in FileNames : TreeOf(sha)[g] # HeadTree(n)[g]}}

\* createOrUpdateFileContents accepted by the hosting service: one commit.
ApiCommit(r, n, path, content) ==
    /\ commits' = Append(commits,
            [tree |-> [HeadTree(n) EXCEPT ![path] = content],
             parent |-> repos[n].head])
    /\ repos' = [repos EXCEPT ![n].head = NewSha]
    /\ commitSha' = [commitSha EXCEPT ![r] = NewSha]
    /\ calls' = [calls EXCEPT ![r].lastWrite = NewSha,
                              ![r].wrote = @ \cup {<<n, path>>}]

\* -------------------------------------- variant A (server.js, 1-302)

\* generateCode: the predefined license text.
PredefinedLicense == MIT

\* generateCode: extract(label) for each block, and the predefined license.
ExtractedFiles(r, present) ==
    [f \in FileNames |->
        IF f = "LICENSE" THEN PredefinedLicense
        ELSE IF f \in present THEN Gen(r) ELSE Placeholder]

\* generateCode (round 1: then tempDir is chosen; round 2: after the clone).
A_GenerateCode(r) ==
    /\ pc[r] = "A_generate"
    /\ \/ /\ calls' = Called(r, "llm")
          /\ Fail(r, "llm")
          /\ UNCHANGED <<files, tempDir>>
       \/ \E present \in Responses(BlockKeys), rnd \in RandomBytes(r) :
            /\ calls' = Answered(r, BlockKeys, present)
            /\ files' = [files EXCEPT ![r] = ExtractedFiles(r, present)]
            /\ UNCHANGED err
            /\ IF req[r].round = Num(1)
               THEN /\ tempDir' = [tempDir EXCEPT ![r] = TempDirA(req[r].task, rnd)]
                    /\ pc' = [pc EXCEPT ![r] = "A_mkdir"]
               ELSE /\ UNCHANGED tempDir
                    /\ pc' = [pc EXCEPT ![r] = "A_write"]
    /\ UNCHANGED <<env, req, resp, repoName, commitSha, loc, payload, repos,
                   commits, dirs>>

\* A step of variant A on its staging directory: `can` is what it needs,
\* `after` the directory it leaves; an error goes to the handler's catch.
LocalStepA(r, label, can, after, next) ==
    LET d == tempDir[r] IN
    /\ pc[r] = label
    /\ \/ /\ can
          /\ dirs' = [dirs EXCEPT ![d] = after]
          /\ pc' = [pc EXCEPT ![r] = next]
          /\ UNCHANGED err
       \/ Fail(r, "publish") /\ UNCHANGED dirs

\* fs.mkdir(tempDir, { recursive: true })
A_Mkdir(r) ==
    LET d == tempDir[r] IN
    /\ LocalStepA(r, "A_mkdir", TRUE, [dirs[d] EXCEPT !.ex = TRUE], "A_write")
    /\ UNCHANGED <<env, req, resp, repoName, tempDir, files, commitSha, loc,
                   payload, calls, repos, commits>>

\* The files each round writes into tempDir.
WrittenA(rd) ==
    IF rd = Num(1) THEN {"index.html", "script.js", "README.md", "LICENSE"}
    ELSE {"index.html", "script.js", "README.md"}

\* The fs.writeFile calls of a round.
A_WriteFiles(r) ==
    LET d == tempDir[r] IN
    /\ LocalStepA(r, "A_write", dirs[d].ex,
                  [dirs[d] EXCEPT !.files = [f \in FileNames |->
                        IF f \in WrittenA(req[r].round) THEN files[r][f]
                        ELSE dirs[d].files[f]]],
                  IF req[r].round = Num(1) THEN "A_init" ELSE "A_add")
    /\ UNCHANGED <<env, req, resp, repoName, tempDir, files, commitSha, loc,
                   payload, calls, repos, commits>>

\* git.init()
A_GitInit(r) ==
    LET d == tempDir[r] IN
    /\ LocalStepA(r, "A_init", dirs[d].ex, [dirs[d] EXCEPT !.inited = TRUE], "A_add")
    /\ UNCHANGED <<env, req, resp, repoName, tempDir, files, commitSha, loc,
                   payload, calls, repos, commits>>

\* git.add('.')
A_GitAdd(r) ==
    LET d == tempDir[r] IN
    /\ LocalStepA(r, "A_add", dirs[d].ex /\ dirs[d].inited,
                  [dirs[d] EXCEPT !.index = dirs[d].files], "A_commit")
    /\ UNCHANGED <<env, req, resp, repoName, tempDir, files, commitSha, loc,
                   payload, calls, repos, commits>>

\* git.commit(message): with nothing staged that differs from HEAD no commit
\* is made.
A_GitCommit(r) ==
    LET d == tempDir[r]
        fresh == dirs[d].index # TreeOf(dirs[d].head)
    IN
    /\ LocalStepA(r, "A_commit", dirs[d].ex /\ dirs[d].inited,
                  [dirs[d] EXCEPT !.head = IF fresh THEN NewSha ELSE @],
                  IF req[r].round = Num(1) THEN "A_remote" ELSE "A_push")
    /\ IF pc'[r] # "done" /\ fresh
       THEN commits' = Append(commits, [tree |-> dirs[d].index, parent |-> dirs[d].head])
       ELSE UNCHANGED commits
    /\ UNCHANGED <<env, req, resp, repoName, tempDir, files, commitSha, loc,
                   payload, calls, repos>>

\* git.addRemote('origin', GIT_AUTH_URL)
A_GitAddRemote(r) ==
    LET d == tempDir[r] IN
    /\ LocalStepA(r, "A_remote", dirs[d].ex /\ dirs[d].inited /\ ~dirs[d].remote,
                  [dirs[d] EXCEPT !.remote = TRUE], "A_push")
    /\ UNCHANGED <<env, req, resp, repoName, tempDir, files, commitSha, loc,
                   payload, calls, repos, commits>>

\* git.push('origin', 'main', ...)
A_GitPush(r) ==
    LET d == tempDir[r]
        n == repoName[r]
    IN
    /\ pc[r] = "A_push"
    /\ \/ /\ dirs[d].ex /\ dirs[d].remote
          /\ dirs[d].head # NoSha
          /\ RemoteExists(n)
          /\ IsAncestor(repos[n].head, dirs[d].head)
          /\ repos' = [repos EXCEPT ![n].head = dirs[d].head]
          /\ calls' = [calls EXCEPT ![r].lastWrite = dirs[d].head,
                                    ![r].wrote = @ \cup Changed(n, dirs[d].head)]
          /\ pc' = [pc EXCEPT ![r] = "A_revparse"]
          /\ UNCHANGED err
       \/ Fail(r, "publish") /\ UNCHANGED <<repos, calls>>
    /\ UNCHANGED <<env, req, resp, repoName, tempDir, files, commitSha, loc,
                   payload, commits, dirs>>

\* git.revparse(['HEAD'])
A_GitRevParse(r) ==
    LET d == tempDir[r] IN
    /\ pc[r] = "A_revparse"
    /\ \/ /\ dirs[d].ex /\ dirs[d].head # NoSha
          /\ commitSha' = [commitSha EXCEPT ![r] = dirs[d].head]
          /\ pc' = [pc EXCEPT ![r] = "A_rm"]
          /\ UNCHANGED err
       \/ Fail(r, "publish") /\ UNCHANGED commitSha
    /\ UNCHANGED <<env, req, resp, repoName, tempDir, files, loc, payload, calls,
                   repos, commits, dirs>>

\* fs.rm(tempDir, { recursive: true, force: true }), then the payload.
A_Cleanup(r) ==
    /\ pc[r] = "A_rm"
    /\ \/ /\ dirs' = [dirs EXCEPT ![tempDir[r]] = NoDir]
          /\ StartNotifier(r, commitSha[r], "A_post")
          /\ UNCHANGED err
       \/ Fail(r, "publish") /\ UNCHANGED <<dirs, payload, loc>>
    /\ UNCHANGED <<env, req, resp, repoName, tempDir, files, commitSha, calls,
                   repos, commits>>

\* git.clone(GIT_AUTH_URL, tempDir)
A_GitClone(r) ==
    LET d == tempDir[r]
        n == repoName[r]
    IN
    /\ pc[r] = "A_clone"
    /\ \/ /\ RemoteExists(n)
          /\ ~dirs[d].ex
          /\ dirs' = [dirs EXCEPT ![d] =
                [ex |-> TRUE, files |-> HeadTree(n), inited |-> TRUE, remote |-> TRUE,
                 index |-> HeadTree(n), head |-> repos[n].head]]
          /\ calls' = [calls EXCEPT ![r].fetched = TRUE]
          /\ pc' = [pc EXCEPT ![r] = "A_read"]
          /\ UNCHANGED err
       \/ Fail(r, "publish") /\ UNCHANGED <<dirs, calls>>
    /\ UNCHANGED <<env, req, resp, repoName, tempDir, files, commitSha, loc,
                   payload, repos, commits>>

\* The three fs.readFile calls that build existingCode.
A_ReadExisting(r) ==
    LET d == tempDir[r] IN
    /\ LocalStepA(r, "A_read",
                  /\ dirs[d].ex
                  /\ \A f \in {"index.html", "script.js", "README.md"} :
                        dirs[d].files[f] # Absent,
                  dirs[d], "A_generate")
    /\ UNCHANGED <<env, req, resp, repoName, tempDir, files, commitSha, loc,
                   payload, calls, repos, commits>>

\* A retry loop that is one attempt short.
A_maxRetriesShort == 5 - 1
\* postToEvaluation: maxRetries
A_maxRetries == 5

\* postToEvaluation: one axios.post of the loop and, on an error, the test
\* i < maxRetries - 1 of the catch block.
A_Post(r) ==
    /\ pc[r] = "A_post"
    /\ loc[r].i < A_maxRetries
    /\ payload' = [payload EXCEPT ![r].sent = TRUE]
    /\ \E status \in Answers(req[r].evaluation_url) :
        /\ calls' = RecordPost(r, status)
        /\ IF AxiosResolves(status)
           THEN pc' = [pc EXCEPT ![r] = "done"] /\ UNCHANGED err
           ELSE IF loc[r].i < A_maxRetries - 1
                THEN pc' = [pc EXCEPT ![r] = "A_backoff"] /\ UNCHANGED err
                ELSE Fail(r, "notify")
    /\ UNCHANGED <<env, req, resp, repoName, tempDir, files, commitSha, loc,
                   repos, commits, dirs>>

\* postToEvaluation: the wait, delay *= 2, and the loop's increment.
A_Backoff(r) ==
    /\ pc[r] = "A_backoff"
    /\ calls' = RecordWait(r, loc[r].delay)
    /\ loc' = [loc EXCEPT ![r].delay = @ * 2, ![r].i = @ + 1]
    /\ pc' = [pc EXCEPT ![r] = "A_post"]
    /\ UNCHANGED <<env, req, resp, repoName, tempDir, files, commitSha, payload,
                   err, repos, commits, dirs>>

StepA(r) ==
    \/ A_GenerateCode(r)
    \/ A_Mkdir(r)
    \/ A_WriteFiles(r)
    \/ A_GitInit(r)
    \/ A_GitAdd(r)
    \/ A_GitCommit(r)
    \/ A_GitAddRemote(r)
    \/ A_GitPush(r)
    \/ A_GitRevParse(r)
    \/ A_Cleanup(r)
    \/ A_GitClone(r)
    \/ A_ReadExisting(r)
    \/ A_Post(r)
    \/ A_Backoff(r)

\* ------------------------------------------------ variant C (part_000)

CRound1Files == <<"LICENSE", "README.md", "index.html">>
\* A round 2 that also rewrites the license.
CRound2FilesAndLicense == <<"index.html", "README.md", "LICENSE">>
CRound2Files == <<"index.html", "README.md">>

\* generateFiles, and the DEBUG line of processTask that reads
\* files.html_content.length.
C_GenerateFiles(r) ==
    /\ pc[r] = "C_generate"
    /\ \/ /\ calls' = Called(r, "llm")
          /\ \E kind \in {"llm", "format"} : Fail(r, kind)
          /\ UNCHANGED <<files, payload, loc>>
       \/ \E present \in Responses(JsonKeys) :
            /\ calls' = Answered(r, JsonKeys, present)
            /\ files' = [files EXCEPT ![r] =
                  [f \in FileNames |-> IF f \in present THEN Gen(r)
                                       ELSE IF f \in JsonKeys THEN Undef ELSE Absent]]
            /\ IF "index.html" \notin present
               THEN Fail(r, "type") /\ UNCHANGED <<payload, loc>>
               ELSE /\ UNCHANGED err
                    /\ CASE req[r].round = Num(1) ->
                              /\ pc' = [pc EXCEPT ![r] = "C_create"]
                              /\ UNCHANGED <<payload, loc>>
                         [] req[r].round = Num(2) ->
                              /\ pc' = [pc EXCEPT ![r] = "C_get"]
                              /\ loc' = [loc EXCEPT ![r].k = 1]
                              /\ UNCHANGED payload
                         [] OTHER -> StartNotifier(r, NoSha, "C_post")
    /\ UNCHANGED <<env, req, resp, repoName, tempDir,
                   commitSha, repos, commits, dirs>>

\* octokit.repos.createForAuthenticatedUser
C_CreateRepo(r) ==
    /\ pc[r] = "C_create"
    /\ calls' = Called(r, "create")
    /\ \/ /\ ~repos[repoName[r]].exists
          /\ repos' = [repos EXCEPT ![repoName[r]] = EmptyRepo]
          /\ pc' = [pc EXCEPT ![r] = "C_write"]
          /\ loc' = [loc EXCEPT ![r].k = 1]
          /\ UNCHANGED err
       \/ Fail(r, "publish") /\ UNCHANGED <<repos, loc>>
    /\ UNCHANGED <<env, req, resp, repoName, tempDir, files,
                   commitSha, payload, commits, dirs>>

\* One iteration of the round-1 loop over filesToCommit.
C_CommitFile(r) ==
    LET n == repoName[r]
        path == CRound1Files[loc[r].k]
    IN
    /\ pc[r] = "C_write"
    /\ IF files[r][path] = Undef
       THEN \* Buffer.from(undefined, 'utf8') throws a TypeError
            /\ Fail(r, "type")
            /\ UNCHANGED <<repos, commits, commitSha, calls, loc>>
       ELSE \/ /\ repos[n].exists
               /\ HeadTree(n)[path] = Absent
               /\ ApiCommit(r, n, path, files[r][path])
               /\ IF loc[r].k = Len(CRound1Files)
                  THEN pc' = [pc EXCEPT ![r] = "C_pages"] /\ UNCHANGED loc
                  ELSE /\ loc' = [loc EXCEPT ![r].k = @ + 1]
                       /\ UNCHANGED pc
               /\ UNCHANGED err
            \/ /\ Fail(r, "publish")
               /\ UNCHANGED <<repos, commits, commitSha, calls, loc>>
    /\ UNCHANGED <<env, req, resp, repoName, tempDir, files,
                   payload, dirs>>

\* octokit.repos.createPagesSite, then the return of createAndPushRepo and
\* the payload of processTask.
C_EnablePages(r) ==
    /\ pc[r] = "C_pages"
    /\ calls' = Called(r, "pages")
    /\ \/ /\ repos[repoName[r]].exists
          /\ ~repos[repoName[r]].pages
          /\ repos' = [repos EXCEPT ![repoName[r]].pages = TRUE]
          /\ StartNotifier(r, commitSha[r], "C_post")
          /\ UNCHANGED err
       \/ Fail(r, "publish") /\ UNCHANGED <<repos, payload, loc>>
    /\ UNCHANGED <<env, req, resp, repoName, tempDir, files,
                   commitSha, commits, dirs>>

\* octokit.repos.getContent in the round-2 loop over filesToUpdate.
C_GetContent(r) ==
    LET n == repoName[r]
        path == CRound2Files[loc[r].k]
    IN
    /\ pc[r] = "C_get"
    /\ \/ /\ RemoteExists(n)
          /\ HeadTree(n)[path] # Absent
          /\ loc' = [loc EXCEPT ![r].currentSha = BlobSha(HeadTree(n)[path])]
          /\ calls' = [calls EXCEPT ![r].fetched = TRUE]
          /\ pc' = [pc EXCEPT ![r] = "C_update"]
          /\ UNCHANGED err
       \/ Fail(r, "publish") /\ UNCHANGED <<loc, calls>>
    /\ UNCHANGED <<env, req, resp, repoName, tempDir, files,
                   commitSha, payload, repos, commits, dirs>>

\* octokit.repos.createOrUpdateFileContents with sha: currentSha.
C_UpdateFile(r) ==
    LET n == repoName[r]
        path == CRound2Files[loc[r].k]
    IN
    /\ pc[r] = "C_update"
    /\ IF files[r][path] = Undef
       THEN /\ Fail(r, "type")
            /\ UNCHANGED <<repos, commits, commitSha, calls, loc, payload>>
       ELSE \/ /\ repos[n].exists
               /\ HeadTree(n)[path] # Absent
               /\ BlobSha(HeadTree(n)[path]) = loc[r].currentSha
               /\ ApiCommit(r, n, path, files[r][path])
               /\ IF loc[r].k = Len(CRound2Files)
                  THEN /\ payload' = [payload EXCEPT ![r] = BuildPayload(r, NewSha)]
                       /\ loc' = [loc EXCEPT ![r] = EnterNotifier(r)]
                       /\ pc' = [pc EXCEPT ![r] = "C_post"]
                  ELSE /\ loc' = [loc EXCEPT ![r].k = @ + 1]
                       /\ pc' = [pc EXCEPT ![r] = "C_get"]
                       /\ UNCHANGED payload
               /\ UNCHANGED err
            \/ /\ Fail(r, "publish")
               /\ UNCHANGED <<repos, commits, commitSha, calls, loc, payload>>
    /\ UNCHANGED <<env, req, resp, repoName, tempDir, files,
                   dirs>>

\* sendNotification: MAX_RETRIES
C_MAX_RETRIES == 5

\* sendNotification: one axios.post of the loop.
C_Post(r) ==
    /\ pc[r] = "C_post"
    /\ loc[r].i < C_MAX_RETRIES
    /\ payload' = [payload EXCEPT ![r].sent = TRUE]
    /\ \E status \in Answers(req[r].evaluation_url) :
        /\ calls' = RecordPost(r, status)
        /\ IF AxiosResolves(status)
           THEN pc' = [pc EXCEPT ![r] = "done"]
           ELSE pc' = [pc EXCEPT ![r] = "C_backoff"]
    /\ UNCHANGED <<env, req, resp, repoName, tempDir, files,
                   commitSha, loc, err, repos, commits, dirs>>

\* A processTask that deletes the repository when the notification fails.
C_BackoffThenUnpublish(r) ==
    /\ pc[r] = "C_backoff"
    /\ calls' = RecordWait(r, loc[r].delay)
    /\ loc' = [loc EXCEPT ![r].delay = @ * 2, ![r].i = @ + 1]
    /\ IF loc[r].i + 1 < C_MAX_RETRIES
       THEN pc' = [pc EXCEPT ![r] = "C_post"] /\ UNCHANGED <<err, repos>>
       ELSE /\ Fail(r, "notify")
            /\ repos' = [repos EXCEPT ![repoName[r]] = NoRepo]
    /\ UNCHANGED <<env, req, resp, repoName, tempDir, files,
                   commitSha, payload, commits, dirs>>
\* sendNotification: the catch block (wait, double the delay), the loop's
\* increment and test, and the throw after the loop.
C_Backoff(r) ==
    /\ pc[r] = "C_backoff"
    /\ calls' = RecordWait(r, loc[r].delay)
    /\ loc' = [loc EXCEPT ![r].delay = @ * 2, ![r].i = @ + 1]
    /\ IF loc[r].i + 1 < C_MAX_RETRIES
       THEN pc' = [pc EXCEPT ![r] = "C_post"] /\ UNCHANGED err
       ELSE Fail(r, "notify")
    /\ UNCHANGED <<env, req, resp, repoName, tempDir, files,
                   commitSha, payload, repos, commits, dirs>>

\* -------------------------------------- variant B (server.js, 303-640)

\* An uncaught exception ends the process: every run that has not finished
\* stops where it is, and no further request is served.
Crash(r) ==
    /\ pc' = [q \in Runs |-> IF pc[q] = "done" THEN "done" ELSE "crashed"]
    /\ err' = [err EXCEPT ![r] = "uncaught"]

\* commitToGitHub: fs.mkdirSync(tempDir) and the fs.writeFileSync loop.
StagedB(fs, d) ==
    [dirs[d] EXCEPT !.ex = TRUE,
                    !.files = [f \in FileNames |->
                                 IF fs[f] \notin {Absent, Undef}
                                 THEN fs[f] ELSE dirs[d].files[f]]]

\* commitToGitHub: the finally block.
CleanedB(d) == [dirs EXCEPT ![d] = NoDir]

\* A processTask that reports to the evaluator after a failed publish.
FailBThenNotify(r) ==
    /\ err' = [err EXCEPT ![r] = "publish"]
    /\ pc' = [pc EXCEPT ![r] = "B_post"]
    /\ dirs' = CleanedB(tempDir[r])
\* A git command of commitToGitHub failed: the finally block runs and the
\* error reaches the catch of processTask.
FailB(r) ==
    /\ Fail(r, "publish")
    /\ dirs' = CleanedB(tempDir[r])

\* generateAppCode; on success the synchronous start of commitToGitHub.
B_GenerateAppCode(r) ==
    /\ pc[r] = "B_generate"
    /\ \/ /\ calls' = Called(r, "llm")
          /\ \E kind \in {"llm", "format"} : Fail(r, kind)
          /\ UNCHANGED <<files, dirs>>
       \/ \E present \in Responses(JsonKeys) :
            /\ calls' = Answered(r, JsonKeys, present)
            /\ IF present # JsonKeys
               THEN \* "LLM did not return all required files"
                    Fail(r, "format") /\ UNCHANGED <<files, dirs>>
               ELSE LET fs == [f \in FileNames |->
                                   IF f \in JsonKeys THEN Gen(r) ELSE Absent]
                    IN
                    /\ files' = [files EXCEPT ![r] = fs]
                    /\ UNCHANGED err
                    /\ IF req[r].round = Num(1)
                       THEN /\ pc' = [pc EXCEPT ![r] = "B_create"]
                            /\ UNCHANGED dirs
                       ELSE /\ pc' = [pc EXCEPT ![r] = "B_init"]
                            /\ dirs' = [dirs EXCEPT ![tempDir[r]] = StagedB(fs, tempDir[r])]
    /\ UNCHANGED <<env, req, resp, repoName, tempDir, commitSha, loc, payload,
                   repos, commits>>

\* octokit.repos.createForAuthenticatedUser, then the staging of the files.
B_CreateRepo(r) ==
    /\ pc[r] = "B_create"
    /\ calls' = Called(r, "create")
    /\ \/ /\ ~repos[repoName[r]].exists
          /\ repos' = [repos EXCEPT ![repoName[r]] = EmptyRepo]
          /\ dirs' = [dirs EXCEPT ![tempDir[r]] = StagedB(files[r], tempDir[r])]
          /\ pc' = [pc EXCEPT ![r] = "B_init"]
          /\ UNCHANGED err
       \/ FailB(r) /\ UNCHANGED repos
    /\ UNCHANGED <<env, req, resp, repoName, tempDir, files, commitSha, loc,
                   payload, commits>>

\* runCommand('git', ...) in tempDir: spawn in a directory that is gone emits
\* an 'error' event nobody listens to; otherwise the command may exit non-zero.
\* `can` is what the command needs to succeed, `after` the directory and
\* `objects` the commit objects it leaves.
GitCommandB(r, label, can, after, objects, next) ==
    LET d == tempDir[r] IN
    /\ pc[r] = label
    /\ IF ~dirs[d].ex
       THEN Crash(r) /\ UNCHANGED <<dirs, commits>>
       ELSE \/ /\ can
               /\ dirs' = [dirs EXCEPT ![d] = after]
               /\ commits' = objects
               /\ pc' = [pc EXCEPT ![r] = next]
               /\ UNCHANGED err
            \/ FailB(r) /\ UNCHANGED commits

B_GitInit(r) ==
    LET d == tempDir[r] IN
    /\ GitCommandB(r, "B_init", TRUE, [dirs[d] EXCEPT !.inited = TRUE], commits, "B_remote")
    /\ UNCHANGED <<env, req, resp, repoName, tempDir, files, commitSha, loc,
                   payload, calls, repos>>

B_GitRemoteAdd(r) ==
    LET d == tempDir[r] IN
    /\ GitCommandB(r, "B_remote", dirs[d].inited /\ ~dirs[d].remote,
                   [dirs[d] EXCEPT !.remote = TRUE], commits, "B_config")
    /\ UNCHANGED <<env, req, resp, repoName, tempDir, files, commitSha, loc,
                   payload, calls, repos, commits>>

\* git config user.email and git config user.name
B_GitConfig(r) ==
    LET d == tempDir[r] IN
    /\ GitCommandB(r, "B_config", dirs[d].inited, dirs[d], commits, "B_add")
    /\ UNCHANGED <<env, req, resp, repoName, tempDir, files, commitSha, loc,
                   payload, calls, repos>>

B_GitAdd(r) ==
    LET d == tempDir[r] IN
    /\ GitCommandB(r, "B_add", dirs[d].inited,
                   [dirs[d] EXCEPT !.index = dirs[d].files], commits, "B_commit")
    /\ UNCHANGED <<env, req, resp, repoName, tempDir, files, commitSha, loc,
                   payload, calls, repos>>

B_GitCommit(r) ==
    LET d == tempDir[r] IN
    /\ GitCommandB(r, "B_commit",
                   dirs[d].inited /\ dirs[d].index # TreeOf(dirs[d].head),
                   [dirs[d] EXCEPT !.head = NewSha],
                   Append(commits, [tree |-> dirs[d].index, parent |-> dirs[d].head]),
                   "B_branch")
    /\ UNCHANGED <<env, req, resp, repoName, tempDir, files, commitSha, loc,
                   payload, calls, repos>>

B_GitBranch(r) ==
    LET d == tempDir[r] IN
    /\ GitCommandB(r, "B_branch", dirs[d].inited /\ dirs[d].head # NoSha,
                   dirs[d], commits, "B_push")
    /\ UNCHANGED <<env, req, resp, repoName, tempDir, files, commitSha, loc,
                   payload, calls, repos>>


\* git push -u origin main
B_GitPush(r) ==
    LET d == tempDir[r]
        n == repoName[r]
    IN
    /\ pc[r] = "B_push"
    /\ IF ~dirs[d].ex
       THEN Crash(r) /\ UNCHANGED <<dirs, repos, calls>>
       ELSE \/ /\ dirs[d].remote
               /\ dirs[d].head # NoSha
               /\ RemoteExists(n)
               /\ IsAncestor(repos[n].head, dirs[d].head)
               /\ repos' = [repos EXCEPT ![n].head = dirs[d].head]
               /\ calls' = [calls EXCEPT ![r].lastWrite = dirs[d].head,
                                         ![r].wrote = @ \cup Changed(n, dirs[d].head)]
               /\ pc' = [pc EXCEPT ![r] = "B_revparse"]
               /\ UNCHANGED <<err, dirs>>
            \/ FailB(r) /\ UNCHANGED <<repos, calls>>
    /\ UNCHANGED <<env, req, resp, repoName, tempDir, files, commitSha, loc,
                   payload, commits>>

\* git rev-parse HEAD, the return through the finally block, and the
\* continuation of processTask up to its next await.
B_GitRevParse(r) ==
    LET d == tempDir[r] IN
    /\ pc[r] = "B_revparse"
    /\ IF ~dirs[d].ex
       THEN Crash(r) /\ UNCHANGED <<dirs, commitSha, payload, loc>>
       ELSE \/ /\ dirs[d].head # NoSha
               /\ commitSha' = [commitSha EXCEPT ![r] = dirs[d].head]
               /\ dirs' = CleanedB(d)
               /\ UNCHANGED err
               /\ IF req[r].round = Num(1)
                  THEN /\ pc' = [pc EXCEPT ![r] = "B_pages"]
                       /\ UNCHANGED <<payload, loc>>
                  ELSE StartNotifier(r, dirs[d].head, "B_post")
            \/ FailB(r) /\ UNCHANGED <<commitSha, payload, loc>>
    /\ UNCHANGED <<env, req, resp, repoName, tempDir, files, calls, repos, commits>>

\* enableGitHubPages: octokit.repos.createPagesDeployment
B_EnablePages(r) ==
    /\ pc[r] = "B_pages"
    /\ calls' = Called(r, "pages")
    /\ \/ /\ repos[repoName[r]].exists
          /\ repos' = [repos EXCEPT ![repoName[r]].pages = TRUE]
          /\ StartNotifier(r, commitSha[r], "B_post")
          /\ UNCHANGED err
       \/ Fail(r, "publish") /\ UNCHANGED <<repos, payload, loc>>
    /\ UNCHANGED <<env, req, resp, repoName, tempDir, files, commitSha, commits,
                   dirs>>

\* pingEvaluationAPI: delayTimes
DelayTimes == <<1000, 2000, 4000, 8000, 16000, 32000>>

\* pingEvaluationAPI: one axios.post of the loop; a response that is not 200
\* falls through to the next iteration.
B_Post(r) ==
    /\ pc[r] = "B_post"
    /\ loc[r].i < Len(DelayTimes)
    /\ payload' = [payload EXCEPT ![r].sent = TRUE]
    /\ \E status \in Answers(req[r].evaluation_url) :
        /\ calls' = RecordPost(r, status)
        /\ IF AxiosResolves(status)
           THEN IF status = 200
                THEN pc' = [pc EXCEPT ![r] = "done"] /\ UNCHANGED <<loc, err>>
                ELSE /\ loc' = [loc EXCEPT ![r].i = @ + 1]
                     /\ IF loc[r].i + 1 < Len(DelayTimes)
                        THEN UNCHANGED <<pc, err>>
                        ELSE Fail(r, "notify")
           ELSE /\ pc' = [pc EXCEPT ![r] = "B_backoff"]
                /\ loc' = [loc EXCEPT ![r].delay = DelayTimes[loc[r].i + 1]]
                /\ UNCHANGED err
    /\ UNCHANGED <<env, req, resp, repoName, tempDir, files, commitSha, repos,
                   commits, dirs>>

\* pingEvaluationAPI: the catch block's wait, the loop's increment and test,
\* and the throw after the loop.
B_Backoff(r) ==
    /\ pc[r] = "B_backoff"
    /\ calls' = RecordWait(r, loc[r].delay)
    /\ loc' = [loc EXCEPT ![r].i = @ + 1]
    /\ IF loc[r].i + 1 < Len(DelayTimes)
       THEN pc' = [pc EXCEPT ![r] = "B_post"] /\ UNCHANGED err
       ELSE Fail(r, "notify")
    /\ UNCHANGED <<env, req, resp, repoName, tempDir, files, commitSha, payload,
                   repos, commits, dirs>>

StepB(r) ==
    \/ B_GenerateAppCode(r)
    \/ B_CreateRepo(r)
    \/ B_GitInit(r)
    \/ B_GitRemoteAdd(r)
    \/ B_GitConfig(r)
    \/ B_GitAdd(r)
    \/ B_GitCommit(r)
    \/ B_GitBranch(r)
    \/ B_GitPush(r)
    \/ B_GitRevParse(r)
    \/ B_EnablePages(r)
    \/ B_Post(r)
    \/ B_Backoff(r)

StepC(r) ==
    \/ C_GenerateFiles(r)
    \/ C_CreateRepo(r)
    \/ C_CommitFile(r)
    \/ C_EnablePages(r)
    \/ C_GetContent(r)
    \/ C_UpdateFile(r)
    \/ C_Post(r)
    \/ C_Backoff(r)

Next == \E r \in Runs : Gate(r) \/ StepA(r) \/ StepB(r) \/ StepC(r)

Spec == Init /\ [][Next]_vars

\* Every call a run has issued is answered and every timer it has set fires:
\* a run that can take a step eventually takes one.
Step(r) == StepA(r) \/ StepB(r) \/ StepC(r)
\* Progress is examined on the environments with one request, the ones whose
\* evaluator may fail.
FairInit == Init /\ load.requests = 1
FairSpec == FairInit /\ [][Next]_vars /\ \A r \in Runs : WF_vars(Step(r))

\* ------------------------------------------------------------ properties

\* The request of run r has arrived and carried the configured secret.
Accepted(r) == req[r] # NoReq /\ req[r].secret = STUDENT_SECRET
\* The request of run r has arrived and carried another secret.
Rejected(r) == req[r] # NoReq /\ req[r].secret # STUDENT_SECRET
\* The run has ended without an error.
Completed(r) == Accepted(r) /\ pc[r] = "done" /\ err[r] = ""
\* The positions of a run inside the Notifier's retry loop.
NotifierPcs == {"A_post", "A_backoff", "B_post", "B_backoff", "C_post", "C_backoff"}
\* The maximum number of POSTs the specification states for the variants.
StatedMaxAttempts(v) == IF v = "B" THEN 6 ELSE 5
RECURSIVE Pow2(_)
Pow2(n) == IF n = 0 THEN 1 ELSE 2 * Pow2(n - 1)

\* C1: a request whose secret differs from the configured one is answered
\* with 401 or 403 and nothing else, and neither then nor later does its run
\* call the model, create or write or read a repository, enable pages, or
\* POST to the evaluator.
C1_RejectedRequestHasNoEffect ==
    \A r \in Runs :
        Rejected(r) =>
            /\ resp[r] \in {<<401>>, <<403>>}
            /\ calls[r].llm = 0 /\ calls[r].create = 0 /\ calls[r].pages = 0
            /\ calls[r].posts = 0 /\ calls[r].wrote = {} /\ ~calls[r].fetched
            /\ calls[r].lastWrite = NoSha /\ ~payload[r].sent

\* C1 happens: a request with a wrong secret has been answered while the
\* service has a secret configured.
C1_Witness ==
    \E r \in Runs : /\ Rejected(r) /\ pc[r] = "done"
                    /\ STUDENT_SECRET = GoodSecret /\ req[r].secret = "wrong"

\* C2: whenever a run has reached the pipeline (it is about to call the
\* model, or has called it, or has made any hosting or evaluator call), its
\* 200 response has already been sent, and it is the only response.
C2_AcknowledgedBeforeWork ==
    \A r \in Runs :
        (\/ Accepted(r)
         \/ calls[r].llm > 0 \/ calls[r].create > 0 \/ calls[r].pages > 0
         \/ calls[r].posts > 0 \/ calls[r].fetched \/ calls[r].wrote # {})
        => resp[r] = <<200>>

\* C2 happens: a run has called the model, a hosting operation and the
\* evaluator, after its 200.
C2_Witness ==
    \E r \in Runs : /\ calls[r].llm > 0 /\ calls[r].wrote # {}
                    /\ calls[r].posts > 0 /\ resp[r] = <<200>>

\* C3: when the evaluator answers k attempts with a failure and attempt k+1
\* with a 2xx status, the Notifier makes exactly k+1 POSTs and has waited
\* 2^k - 1 seconds in total; the number of POSTs never exceeds the maximum.
C3_RetriesThenSuccess ==
    \A r \in Runs :
        /\ calls[r].posts <= StatedMaxAttempts(variant)
        /\ calls[r].okAt > 0 =>
              /\ calls[r].posts = calls[r].okAt
              /\ calls[r].waited = 1000 * (Pow2(calls[r].okAt - 1) - 1)

\* C4: when the evaluator fails every attempt, the Notifier makes exactly
\* the maximum number of POSTs (6 in variant B, 5 in the others) and then
\* fails the run; no POST follows that failure; and a run that has entered
\* the Notifier always leaves it.
C4_ExhaustedRetriesAreFatal ==
    /\ [](\A r \in Runs :
            /\ (calls[r].posts > 0 /\ calls[r].failed = calls[r].posts
                   /\ pc[r] \notin NotifierPcs /\ pc[r] # "crashed")
                => /\ calls[r].posts = StatedMaxAttempts(variant)
                   /\ pc[r] = "done" /\ err[r] = "notify"
            /\ (calls[r].failed = calls[r].posts /\ pc[r] \in NotifierPcs)
                => calls[r].posts <= StatedMaxAttempts(variant) /\ err[r] = "")
    /\ [][\A r \in Runs : err[r] = "notify" => /\ calls'[r].posts = calls[r].posts
                                                /\ err'[r] = "notify"]_vars
    /\ \A r \in Runs : (pc[r] \in NotifierPcs) ~> (pc[r] \notin NotifierPcs)

\* C4 happens: the evaluator has failed every attempt of a run and the run
\* has ended with the Notifier's error after the maximum number of POSTs.
C4_Witness ==
    \E r \in Runs : /\ err[r] = "notify" /\ pc[r] = "done"
                    /\ calls[r].failed = calls[r].posts
                    /\ calls[r].posts = StatedMaxAttempts(variant)

\* C5: an attempt succeeds exactly when the evaluator answers with a 2xx
\* status: the first 2xx answer ends the retry loop, with no further POST and
\* no error; and every other answer (another status, a transport error) is
\* followed by a wait before the next attempt is made.
C5_SuccessIsAny2xx ==
    \A r \in Runs :
        /\ calls[r].okAt > 0 =>
              /\ calls[r].posts = calls[r].okAt
              /\ pc[r] \notin NotifierPcs
              /\ err[r] = ""
        /\ (pc[r] \in {"A_post", "B_post", "C_post"}) =>
              calls[r].waits = calls[r].failed

\* C6: a round-1 run that completes has made exactly one repository-creation
\* call and exactly one page-enable call; a round-2 run makes none of either.
C6_OneCreateOnePagesInRoundOne ==
    \A r \in Runs :
        /\ (Completed(r) /\ req[r].round = Num(1))
              => calls[r].create = 1 /\ calls[r].pages = 1
        /\ (Accepted(r) /\ req[r].round = Num(2))
              => calls[r].create = 0 /\ calls[r].pages = 0

\* C7: when the model's answer lacks a required file, the run ends in the
\* Generator with a format error, having created no repository, written no
\* file, enabled no pages and sent no notification.
C7_MissingFileStopsBeforeHosting ==
    \A r \in Runs :
        calls[r].lacked # {} =>
            /\ pc[r] = "done" /\ err[r] = "format"
            /\ calls[r].create = 0 /\ calls[r].wrote = {}
            /\ calls[r].lastWrite = NoSha /\ calls[r].pages = 0
            /\ calls[r].posts = 0

\* C8: the repository name depends on the task identifier only: a round-2
\* run computes the name the round-1 run for the same task computed.
C8_SameNameInBothRounds ==
    \A r1, r2 \in Runs :
        (/\ Accepted(r1) /\ Accepted(r2)
         /\ req[r1].task = req[r2].task
         /\ req[r1].round = Num(1) /\ req[r2].round = Num(2))
        => repoName[r1] = repoName[r2]

\* The repository the round-1 run for the task of run r published to.
RoundOneRepo(r) == RepoName(variant, req[r].task, Num(1))
\* The paths run r has written in that repository.
WrittenInRoundOneRepo(r) == {f \in FileNames : <<RoundOneRepo(r), f>> \in calls[r].wrote}
\* Run r is a round-2 run that arrived after a round-1 run for its task had
\* completed.
FollowsRoundOne(r) == Accepted(r) /\ req[r].round = Num(2) /\ calls[r].follows

\* C9 as stated: a round-2 run that follows a successful round-1 run for the
\* same task writes no path of the existing repository other than index.html
\* and README.md, so that its LICENSE keeps its content and version.
C9_RoundTwoWritesOnlyIndexAndReadme ==
    \A r \in Runs :
        FollowsRoundOne(r) => WrittenInRoundOneRepo(r) \subseteq {"index.html", "README.md"}

\* C9: a round-2 run that follows a successful round-1 run for the same task
\* writes no path of the existing repository other than index.html,
\* README.md and script.js (which variant A regenerates); the repository
\* still exists and its LICENSE is the one the round-1 run wrote.
C9_RoundTwoLeavesLicense ==
    \A r \in Runs :
        FollowsRoundOne(r) =>
            /\ WrittenInRoundOneRepo(r) \subseteq {"index.html", "README.md", "script.js"}
            /\ variant # "A" => "script.js" \notin WrittenInRoundOneRepo(r)
            /\ repos[RoundOneRepo(r)].exists
            /\ \A q \in Runs :
                  (/\ Completed(q) /\ req[q].round = Num(1)
                   /\ req[q].task = req[r].task)
                  => HeadTree(RoundOneRepo(r))["LICENSE"] = files[q]["LICENSE"]

\* C9 happens: a round-2 run that followed a successful round-1 run has
\* completed, having written index.html and README.md in the repository of
\* round 1.
C9_Witness ==
    \E r \in Runs : /\ FollowsRoundOne(r) /\ Completed(r)
                    /\ {"index.html", "README.md"} \subseteq WrittenInRoundOneRepo(r)

\* C10: in every run that has sent a notification, the payload's commit_sha
\* is the SHA the last repository write of the run returned, and the commit
\* it names contains every file the run generated.
C10_PayloadNamesLastWrite ==
    \A r \in Runs :
        payload[r].sent =>
            /\ calls[r].lastWrite # NoSha
            /\ payload[r].commit_sha = calls[r].lastWrite
            /\ \A f \in FileNames :
                  files[r][f] # Absent => TreeOf(payload[r].commit_sha)[f] # Absent

\* The errors of the Generator and of the Publisher.
GenerationOrPublishErrors == {"llm", "format", "type", "publish"}

\* C11: a run in which the generation step or a publish step (repository
\* creation, a write, commit or push, the page-enable call) has failed has
\* sent no notification POST, before or after the failure.
C11_NoNotificationAfterFailure ==
    \A r \in Runs :
        err[r] \in GenerationOrPublishErrors =>
            /\ calls[r].posts = 0 /\ ~payload[r].sent
            /\ pc[r] \notin NotifierPcs

\* C11 happens: a run has failed in the Publisher after one of its writes
\* had been accepted.
C11_Witness ==
    \E r \in Runs : /\ err[r] = "publish" /\ pc[r] = "done"
                    /\ calls[r].lastWrite # NoSha

\* C12: every request received has exactly one response, 200 for the
\* configured secret and 401 or 403 otherwise, and no error of its
\* background work escapes the task's handler as an unhandled error.
C12_OneResponseNoUnhandledError ==
    \A r \in Runs :
        req[r] # NoReq =>
            /\ Accepted(r) => resp[r] = <<200>>
            /\ Rejected(r) => resp[r] \in {<<401>>, <<403>>}
            /\ pc[r] # "crashed" /\ err[r] # "uncaught"

\* No other run is at work in the staging directory of run r.
AloneInDir(r) ==
    \A q \in Runs \ {r} : tempDir[q] = tempDir[r] => pc[q] \in {"idle", "done", "crashed"}

\* C13: when a run has finished, with or without an error, its staging
\* directory does not exist.
C13_StagingDirectoryRemoved ==
    \A r \in Runs :
        (pc[r] = "done" /\ tempDir[r] # NoTempDir /\ AloneInDir(r))
        => ~dirs[tempDir[r]].ex

\* The positions at which a run works in its staging directory.
StagingPcs ==
    {"A_mkdir", "A_write", "A_init", "A_add", "A_commit", "A_remote", "A_push",
     "A_revparse", "A_rm", "A_clone", "A_read",
     "B_init", "B_remote", "B_config", "B_add", "B_commit", "B_branch", "B_push",
     "B_revparse"}

\* C14: two runs that are at work in a staging directory at the same time
\* work in different directories.
C14_StagingDirectoryNotShared ==
    \A r1, r2 \in Runs :
        (r1 # r2 /\ pc[r1] \in StagingPcs /\ pc[r2] \in StagingPcs)
        => tempDir[r1] # tempDir[r2]

\* C15: a round-2 run whose repository does not exist gets no further than
\* resolving it: it has read and written nothing there, has created no
\* repository, is not in the Notifier and has sent nothing, and when it has
\* ended it has ended with an error.
C15_RoundTwoNeedsRepository ==
    \A r \in Runs :
        (Accepted(r) /\ req[r].round = Num(2) /\ ~repos[repoName[r]].exists)
        => /\ calls[r].create = 0 /\ calls[r].wrote = {}
           /\ calls[r].lastWrite = NoSha /\ ~calls[r].fetched
           /\ calls[r].posts = 0 /\ ~payload[r].sent
           /\ pc[r] \notin NotifierPcs
           /\ pc[r] = "done" => err[r] # ""

\* C15 happens: a round-2 run whose repository does not exist has ended
\* with the Publisher's error.
C15_Witness ==
    \E r \in Runs : /\ Accepted(r) /\ req[r].round = Num(2)
                    /\ ~repos[repoName[r]].exists
                    /\ pc[r] = "done" /\ err[r] = "publish"

\* The positions at which a run asks the hosting service to accept a write.
WritePcs == {"C_write", "C_update", "A_push", "B_push"}
\* Run r is the only run that has written path f of repository n.
OnlyWriter(r, n, f) == \A q \in Runs \ {r} : <<n, f>> \notin calls[q].wrote

\* C16: when a write of a run fails, the step that fails changes nothing in
\* the repository, ends the run, and the run has made no page-enable call
\* and sent no notification; an ended run makes no further call; and what a
\* run wrote before stays in the repository: its last commit is in the
\* history of the branch and each path it wrote is there, with the content
\* it has in the run's last commit unless another run has written the path
\* too.
C16_NoRollbackAfterFailedWrite ==
    /\ [][\A r \in Runs :
            (pc[r] \in WritePcs /\ err[r] = "" /\ err'[r] \in {"publish", "type"})
            => /\ repos' = repos /\ commits' = commits
               /\ pc'[r] = "done"
               /\ calls'[r].wrote = calls[r].wrote
               /\ calls'[r].pages = 0 /\ calls'[r].posts = 0
               /\ ~payload'[r].sent]_vars
    /\ [][\A r \in Runs :
            pc[r] = "done" => /\ pc'[r] = "done" /\ calls'[r] = calls[r]
                              /\ payload'[r] = payload[r] /\ err'[r] = err[r]]_vars
    /\ [](\A r \in Runs : \A n \in AllRepoNames, f \in FileNames :
            <<n, f>> \in calls[r].wrote =>
                /\ repos[n].exists
                /\ IsAncestor(calls[r].lastWrite, repos[n].head)
                /\ HeadTree(n)[f] # Absent
                /\ OnlyWriter(r, n, f) =>
                      HeadTree(n)[f] = TreeOf(calls[r].lastWrite)[f])

\* C16 happens: the second write of a round-1 run has failed after its
\* first write, of LICENSE, was accepted, and LICENSE is in the repository.
C16_Witness ==
    \E r \in Runs :
        /\ variant = "C" /\ pc[r] = "done" /\ err[r] \in {"publish", "type"}
        /\ calls[r].wrote = {<<repoName[r], "LICENSE">>}
        /\ HeadTree(repoName[r])["LICENSE"] = files[r]["LICENSE"]
        /\ calls[r].pages = 0 /\ calls[r].posts = 0

\* C17: a round-2 run puts its index.html and its README.md into the
\* repository together: in every state either both paths carry the content
\* that run generated or neither does.
C17_RoundTwoIsOneCommit ==
    \A r \in Runs :
        (Accepted(r) /\ req[r].round = Num(2) /\ calls[r].llm > 0
           /\ calls[r].lacked = {} /\ files[r]["index.html"] # Absent)
        => (HeadTree(repoName[r])["index.html"] = files[r]["index.html"]
              <=> HeadTree(repoName[r])["README.md"] = files[r]["README.md"])

\* Commit a is commit b or one of its ancestors.
RECURSIVE InHistory(_, _)
InHistory(a, b) ==
    IF a = b THEN TRUE
    ELSE IF b = NoSha THEN FALSE
    ELSE InHistory(a, commits[b].parent)
\* The step is one of run r.
Steps(r) == pc'[r] # pc[r] \/ calls'[r] # calls[r]
\* The path the contents call of run r is about.
PathAt(r) == CRound2Files[loc[r].k]

\* C18: a write is accepted only on the version the run has read: an update
\* of a file through the contents API only while the file still has the
\* content the run's getContent saw, a push only when the branch head is in
\* the history of the pushed commit; a run whose reference is stale when it
\* writes is rejected, ends with an error and sends no notification.
C18_NoStaleWriteAccepted ==
    /\ [][\A r \in Runs :
            (pc[r] = "C_update" /\ Steps(r)) =>
              LET cur == HeadTree(repoName[r])[PathAt(r)] IN
              /\ repos' # repos => cur = loc[r].currentSha
              /\ cur # loc[r].currentSha
                   => /\ repos' = repos /\ commits' = commits
                      /\ pc'[r] = "done" /\ err'[r] # ""
                      /\ ~payload'[r].sent /\ calls'[r].posts = 0]_vars
    /\ [][\A r \in Runs :
            (pc[r] \in {"A_push", "B_push"} /\ Steps(r)) =>
              LET n == repoName[r] IN
              /\ repos' # repos => InHistory(repos[n].head, repos'[n].head)
              /\ (dirs[tempDir[r]].ex /\ ~InHistory(repos[n].head, dirs[tempDir[r]].head))
                   => /\ repos' = repos
                      /\ pc'[r] = "done" /\ err'[r] # ""
                      /\ ~payload'[r].sent /\ calls'[r].posts = 0]_vars
    /\ [](\A r \in Runs : \A n \in AllRepoNames :
            (repos[n].exists /\ calls[r].lastWrite # NoSha /\ repoName[r] = n)
            => InHistory(calls[r].lastWrite, repos[n].head))

\* Two round-2 runs for the same task are under way or have ended.
TwoRoundTwoRuns ==
    /\ \A r \in Runs : Accepted(r) /\ req[r].round = Num(2)
    /\ req[1].task = req[2].task

\* C18 happens: of two concurrent round-2 runs for one task, one has written
\* and the other, whose reference had become stale, was rejected and has
\* ended with an error and without a notification.
C18_Witness ==
    /\ TwoRoundTwoRuns
    /\ \E r, q \in Runs :
          /\ r # q
          /\ calls[r].wrote # {}
          /\ calls[q].fetched /\ calls[q].wrote = {}
          /\ pc[q] = "done" /\ err[q] = "publish" /\ calls[q].posts = 0

\* C19: when a round-2 run sends its notification while another round-2 run
\* for the same task is under way or has ended, the commit the payload
\* names holds the index.html and the README.md this run generated.
C19_NotifiedCommitIsTheRunsOwn ==
    TwoRoundTwoRuns =>
        \A r \in Runs :
            payload[r].sent =>
                \A f \in {"index.html", "README.md"} :
                    TreeOf(payload[r].commit_sha)[f] = files[r][f]

\* C20: the step in which the Notifier gives up changes nothing on the
\* hosting service, and the run makes no call after it; when no other run
\* has written to the repository, it is as the Publisher left it: it
\* exists, its head is the run's last commit, and pages are enabled if the
\* run enabled them.
C20_NotifierFailureUnwindsNothing ==
    /\ [][\A r \in Runs :
            (err[r] = "" /\ err'[r] = "notify")
            => repos' = repos /\ commits' = commits]_vars
    /\ [][\A r \in Runs :
            err[r] = "notify"
            => /\ pc'[r] = "done" /\ calls'[r] = calls[r] /\ err'[r] = "notify"
               /\ load.requests = 1 => repos' = repos /\ commits' = commits]_vars
    /\ [](\A r \in Runs :
            (err[r] = "notify" /\ calls[r].lastWrite # NoSha
               /\ \A f \in FileNames : OnlyWriter(r, repoName[r], f))
            => /\ repos[repoName[r]].exists
               /\ repos[repoName[r]].head = calls[r].lastWrite
               /\ calls[r].pages > 0 => repos[repoName[r]].pages)

\* C20 happens: a run that had published has ended with the Notifier's
\* error after all its attempts.
C20_Witness ==
    \E r \in Runs : /\ err[r] = "notify" /\ pc[r] = "done"
                    /\ calls[r].lastWrite # NoSha
                    /\ calls[r].posts = StatedMaxAttempts(variant)
                    /\ repos[repoName[r]].head = calls[r].lastWrite

\* C21: within a run the stages follow one another: no repository is created
\* or written before the run's one generation has returned its files; page
\* hosting is enabled only after every generated file is in the run's last
\* commit; the Notifier starts only after generation and a repository write,
\* and in round 1 only after the run's page-enable call succeeded.
C21_StagesInOrder ==
    \A r \in Runs : Accepted(r) =>
        /\ (calls[r].create > 0 \/ calls[r].wrote # {} \/ calls[r].lastWrite # NoSha)
              => calls[r].llm = 1 /\ files[r] # EmptyTree
        /\ calls[r].pages > 0
              => /\ calls[r].lastWrite # NoSha
                 /\ \A f \in FileNames : files[r][f] # Absent
                        => TreeOf(calls[r].lastWrite)[f] # Absent
        /\ (pc[r] \in NotifierPcs \/ calls[r].posts > 0)
              => /\ calls[r].llm = 1
                 /\ calls[r].lastWrite # NoSha
                 /\ req[r].round = Num(1)
                        => calls[r].pages = 1 /\ repos[repoName[r]].pages

\* C22: in a round-2 run the Generator calls the model only after the run
\* has fetched the current file contents from the hosting repository (what
\* was not fetched cannot be part of the Generator's input).
C22_RoundTwoGeneratesFromFetched ==
    [][\A r \in Runs :
          (req[r].round = Num(2) /\ calls'[r].llm > calls[r].llm)
              => calls[r].fetched]_vars

\* C23: a run calls the model at most once; a run whose call to the model
\* failed, or whose answer was unparsable or lacked a required file, has
\* ended with an error after that one call, and has created no repository,
\* written nothing and enabled no pages.
C23_FailedGenerationWritesNothing ==
    \A r \in Runs :
        /\ calls[r].llm <= 1
        /\ (err[r] \in {"llm", "format"} \/ calls[r].lacked # {})
              => /\ pc[r] = "done" /\ err[r] # ""
                 /\ calls[r].llm = 1
                 /\ calls[r].create = 0 /\ calls[r].wrote = {}
                 /\ calls[r].lastWrite = NoSha /\ calls[r].pages = 0

\* C24: the Notifier waits only between attempts: a run never has more
\* waits than POSTs, and a run whose Notifier gave up after N attempts that
\* all failed has waited exactly N - 1 times, InitialDelay * (2^(N-1) - 1)
\* ms in all: no wait follows the last failed attempt.
C24_NoWaitAfterLastAttempt ==
    \A r \in Runs :
        /\ calls[r].waits <= calls[r].posts
        /\ (pc[r] = "done" /\ err[r] = "notify" /\ calls[r].failed = calls[r].posts)
              => /\ calls[r].waits = calls[r].posts - 1
                 /\ calls[r].waited = InitialDelay * (Pow2(calls[r].posts - 1) - 1)

\* C25: whatever other runs are under way, the payload of a run carries the
\* email, task, round and nonce of the request that started the run and the
\* repository name derived from that request's task and round; it carries
\* the email and the nonce of no other request.
C25_PayloadIsTheRunsOwn ==
    \A r \in Runs :
        payload[r] # NoPayload =>
            /\ Accepted(r)
            /\ payload[r].email = req[r].email
            /\ payload[r].task = req[r].task
            /\ payload[r].round = req[r].round
            /\ payload[r].nonce = req[r].nonce
            /\ payload[r].repo = RepoName(variant, req[r].task, req[r].round)
            /\ \A q \in Runs \ {r} :
                  req[q] # NoReq =>
                      payload[r].nonce # req[q].nonce /\ payload[r].email # req[q].email
\* Two runs for different tasks and rounds overlap: the second has sent its
\* payload while the first, with its payload built, is still in its Notifier.
C25_Witness ==
    /\ pc[1] \in NotifierPcs /\ payload[1] # NoPayload
    /\ payload[2].sent
    /\ req[1].task # req[2].task
    /\ req[1].round # req[2].round

\* C26: a notification is sent only by a run that made at least one
\* successful repository write, and its commit_sha is never empty; a request
\* whose round is neither the number 1 nor the number 2 never has a
\* notification sent for it.
C26_NotificationNeedsAWrite ==
    \A r \in Runs :
        calls[r].posts > 0 =>
            /\ calls[r].lastWrite # NoSha
            /\ payload[r].commit_sha # NoSha
            /\ req[r].round \in {Num(1), Num(2)}

\* C27: when no shared secret is configured, no request is acknowledged
\* with 200 and no run starts, whatever secret the request carries or
\* omits; when one is configured, only a request carrying it is accepted.
C27_UnconfiguredSecretAcceptsNothing ==
    \A r \in Runs :
        req[r] # NoReq =>
            /\ STUDENT_SECRET = UNDEFINED
                  => /\ resp[r] = <<AuthFailureStatus(variant)>>
                     /\ pc[r] = "done"
                     /\ calls[r] = NoCalls
                     /\ payload[r] = NoPayload
            /\ (STUDENT_SECRET # UNDEFINED /\ 200 \in {resp[r][i] : i \in DOMAIN resp[r]})
                  => req[r].secret = STUDENT_SECRET

\* C28: the repository name is an injective function of the task: two
\* accepted requests for different tasks resolve to different repository
\* names, and their runs write to no repository in common.
C28_DifferentTasksDifferentRepos ==
    \A r, q \in Runs :
        (Accepted(r) /\ Accepted(q) /\ req[r].task # req[q].task) =>
            /\ repoName[r] # repoName[q]
            /\ {w[1] : w \in calls[r].wrote} \cap {w[1] : w \in calls[q].wrote} = {}

====
